---- MODULE Spec2Model ----
(***************************************************************************)
(* Orbital Atlas (src/orbital_atlas.py): the ISS tab's asynchronous        *)
(* position polling and render pipeline, and the HTTP helpers with retry.  *)
(*                                                                         *)
(* Four specifications share the definitions below:                        *)
(*   Spec        IssTab: timer ticks, worker threads, queued signals       *)
(*   SpecLive    Spec with the position worker thread scheduled fairly     *)
(*   SpecFetch   http_get_json / http_get_bytes against a transport        *)
(*   SpecCompose IssTab.redraw applied to a grid of positions and sizes    *)
(*                                                                         *)
(* Angles are integers in tenths of a degree (105 is 10.5 degrees).        *)
(***************************************************************************)
EXTENDS Integers, Sequences, FiniteSets, TLC

VARIABLES
    world_img_pil,   \* IssTab.world_img_pil: NoImage or the decoded backdrop
    last_pos,        \* IssTab.last_pos: <<>> (None) or <<lat, lon>>
    fetching,        \* IssTab.fetching
    status,          \* text of the IssTab.status label
    map_label,       \* pixmap shown by IssTab.map_label
    info,            \* text of the IssTab.info label
    queue,           \* signals emitted by workers, queued for the GUI thread
    world_workers,   \* threads started by load_world_image_async
    iss_workers,     \* live threads started by fetch_iss_async
    ticks,           \* timeouts of IssTab.timer delivered so far
    fetch_order,     \* history: the fetch (numbered by the tick that started
                     \* it) of each live worker, of each queued posReady and
                     \* of last_pos, the fetch that completed last, and the
                     \* status last reported for each cause of failure
    call,            \* SpecFetch: the http_get_* call under observation
    transport        \* SpecFetch: the responses HTTP.get has produced

vars == <<world_img_pil, last_pos, fetching, status, map_label, info, queue,
          world_workers, iss_workers, ticks, fetch_order, call, transport>>

tabVars == <<world_img_pil, last_pos, fetching, status, map_label, info, queue,
             world_workers, iss_workers, ticks, fetch_order>>

fetchVars == <<call, transport>>

-----------------------------------------------------------------------------
(* Bounds of the model *)

\* timer timeouts explored
MaxTicks == 2
\* largest retries argument tried in SpecFetch
MaxRetries == 3
\* SpecCompose: latitudes are k * 15 and longitudes k * 30 degrees, |k| <= GridCells
GridCells == 7

(* Program constants *)

\* thumbnail((800, 400)) and the fallback canvas
CanvasW == 800
CanvasH == 400
\* marker radius, r = 10 in redraw
MarkerR == 10
\* retries=2 at the call sites of IssTab
IssRetries == 2
WorldRetries == 2

-----------------------------------------------------------------------------
(* JSON values as Python sees them after r.json(): tagged records *)

JNull == [t |-> "null"]
JStr(chars) == [t |-> "str", v |-> chars]
JNum(tenths) == [t |-> "num", v |-> tenths]
JObj(f) == [t |-> "obj", v |-> f]

\* dict.get(key): None when the key is absent
DictGet(obj, key) ==
    IF key \in DOMAIN obj.v THEN obj.v[key] ELSE JNull

\* Python truthiness of a JSON value (`if not pos`)
Truthy(j) ==
    CASE j.t = "null" -> FALSE
      [] j.t = "str"  -> j.v # <<>>
      [] j.t = "num"  -> j.v # 0
      [] j.t = "obj"  -> DOMAIN j.v # {}
      [] OTHER        -> TRUE

Digits == {"0", "1", "2", "3", "4", "5", "6", "7", "8", "9"}

DigitVal(c) ==
    CASE c = "0" -> 0 [] c = "1" -> 1 [] c = "2" -> 2 [] c = "3" -> 3
      [] c = "4" -> 4 [] c = "5" -> 5 [] c = "6" -> 6 [] c = "7" -> 7
      [] c = "8" -> 8 [] c = "9" -> 9

RECURSIVE DigitsVal(_)
DigitsVal(s) ==
    IF s = <<>> THEN 0
    ELSE 10 * DigitsVal(SubSeq(s, 1, Len(s) - 1)) + DigitVal(s[Len(s)])

AllDigits(s) == \A i \in 1..Len(s) : s[i] \in Digits

DotAt(s) == IF \E i \in 1..Len(s) : s[i] = "."
            THEN CHOOSE i \in 1..Len(s) : s[i] = "."
            ELSE 0

\* float(str) for a decimal literal [sign] digits [. digit]: the value in
\* tenths, or NotANumber (ValueError).  Literals with more than one
\* fractional digit are outside the model's number representation and are
\* not among the inputs.
NotANumber == [ok |-> FALSE, v |-> 0]
Number(n) == [ok |-> TRUE, v |-> n]

ParseUnsigned(s) ==
    LET d == DotAt(s)
        ip == IF d = 0 THEN s ELSE SubSeq(s, 1, d - 1)
        fp == IF d = 0 THEN <<>> ELSE SubSeq(s, d + 1, Len(s))
    IN IF /\ AllDigits(ip) /\ AllDigits(fp)
          /\ Len(ip) + Len(fp) > 0
          /\ Len(fp) <= 1
       THEN Number(10 * DigitsVal(ip) + DigitsVal(fp))
       ELSE NotANumber

ParseFloat(s) ==
    IF s = <<>> THEN NotANumber
    ELSE IF s[1] = "-"
         THEN LET u == ParseUnsigned(Tail(s))
              IN IF u.ok THEN Number(0 - u.v) ELSE NotANumber
         ELSE IF s[1] = "+" THEN ParseUnsigned(Tail(s))
         ELSE ParseUnsigned(s)

\* float(x) for a JSON value: TypeError for anything but a string or number
PyFloat(j) ==
    CASE j.t = "str" -> ParseFloat(j.v)
      [] j.t = "num" -> Number(j.v)
      [] OTHER       -> NotANumber

-----------------------------------------------------------------------------
(* The bodies the remote services may answer with *)

Obj1(k, x) == JObj(k :> x)
Obj2(k1, x1, k2, x2) == JObj(k1 :> x1 @@ k2 :> x2)
IssDoc(pos) == Obj2("message", JStr(<<"o", "k">>), "iss_position", pos)
LatLon(lat, lon) == Obj2("latitude", lat, "longitude", lon)

\* decoded documents of the position endpoint, by body id
JsonDocs == <<
    IssDoc(LatLon(JStr(<<"0">>), JStr(<<"0">>))),
    IssDoc(LatLon(JStr(<<"-", "9", "0">>), JNum(1800))),
    IssDoc(LatLon(JStr(<<"9", "5", ".", "0">>), JStr(<<"2", "0", "0", ".", "5">>))),
    Obj1("message", JStr(<<"o", "k">>)),
    Obj1("position", Obj1("latitude", JStr(<<"1", "0", ".", "5">>))),
    IssDoc(Obj1("latitude", JStr(<<"1", "0", ".", "5">>))),
    IssDoc(LatLon(JStr(<<"1", "0", ".", "5">>), JStr(<<"e", "a", "s", "t">>))),
    IssDoc(LatLon(JNull, JStr(<<"0">>)))
>>

\* body id 0 is a body that is not JSON and not an image
Malformed == 0
JsonBodies == 0..Len(JsonDocs)

\* sizes of the images the backdrop endpoint may serve, by body id
ImageSizes == << <<5400, 2700>>, <<16, 16>> >>
ImageBodies == 0..Len(ImageSizes)

-----------------------------------------------------------------------------
(* HTTP helpers with retry *)

\* what one HTTP.get may do
Responses(bodies) ==
    {[kind |-> "exc", cause |-> "Timeout", body |-> Malformed],
     [kind |-> "status", cause |-> "HTTPError", body |-> Malformed]}
    \cup {[kind |-> "ok", cause |-> "", body |-> b] : b \in bodies}

\* the state of one http_get_json / http_get_bytes call
NewCall(fn, retries) ==
    [fn |-> fn, retries |-> retries, i |-> 0, last_err |-> "None",
     state |-> "running", value |-> Malformed, error |-> ""]

\* one iteration of the loop of http_get_json: HTTP.get, raise_for_status,
\* r.json(); any exception is kept in last_err
http_get_json(c, resp) ==
    IF resp.kind = "exc" \/ resp.kind = "status"
    THEN [c EXCEPT !.i = @ + 1, !.last_err = resp.cause]
    ELSE IF resp.body = Malformed
    THEN [c EXCEPT !.i = @ + 1, !.last_err = "JSONDecodeError"]
    ELSE [c EXCEPT !.i = @ + 1, !.state = "returned", !.value = resp.body]

\* one iteration of the loop of http_get_bytes: r.content is returned as is
http_get_bytes(c, resp) ==
    IF resp.kind = "exc" \/ resp.kind = "status"
    THEN [c EXCEPT !.i = @ + 1, !.last_err = resp.cause]
    ELSE [c EXCEPT !.i = @ + 1, !.state = "returned", !.value = resp.body]

\* the loop running once more than range(retries) does
LoopRuns_off_by_one(c) == c.state = "running" /\ c.i <= c.retries

\* range(retries) has more iterations to run
LoopRuns(c) == c.state = "running" /\ c.i < c.retries

\* the loop ran out: raise RuntimeError(f"... failed: {last_err}")
LoopExhausted(c) == c.state = "running" /\ c.i >= c.retries

http_raise(c) == [c EXCEPT !.state = "raised", !.error = c.last_err]

-----------------------------------------------------------------------------
(* Images and the frame drawn on map_label *)

NoImage == [some |-> FALSE, w |-> 0, h |-> 0]
PilImage(w, h) == [some |-> TRUE, w |-> w, h |-> h]

Abs(x) == IF x < 0 THEN 0 - x ELSE x
Max(a, b) == IF a >= b THEN a ELSE b
Min(a, b) == IF a <= b THEN a ELSE b

\* int(): truncation towards zero of num / den, den > 0
TruncDiv(num, den) ==
    IF num >= 0 THEN num \div den ELSE 0 - ((0 - num) \div den)

\* Image.thumbnail((CanvasW, CanvasH)): the image is never enlarged; otherwise
\* one side is kept and the other is the floor or the ceiling of the
\* aspect-preserving size, whichever is closer to the aspect ratio (the floor
\* on a tie), and at least 1
Thumbnail(W, H) ==
    IF CanvasW >= W /\ CanvasH >= H THEN <<W, H>>
    ELSE IF CanvasW * H >= CanvasH * W
    THEN LET lo == (CanvasH * W) \div H
             hi == IF (CanvasH * W) % H = 0 THEN lo ELSE lo + 1
             klo == Abs(CanvasH * W - lo * H)
             khi == Abs(CanvasH * W - hi * H)
         IN <<Max(IF klo <= khi THEN lo ELSE hi, 1), CanvasH>>
    ELSE LET lo == (CanvasW * H) \div W
             hi == IF (CanvasW * H) % W = 0 THEN lo ELSE lo + 1
             klo == IF lo = 0 THEN 0 ELSE Abs(W * lo - CanvasW * H) * hi
             khi == IF hi = 0 THEN 0 ELSE Abs(W * hi - CanvasW * H) * lo
         IN <<CanvasW, Max(IF klo <= khi THEN lo ELSE hi, 1)>>

\* Image.open(...).convert("RGB") then thumbnail: NoImage when the bytes are
\* no image (Image.open raises)
DecodeImage(body) ==
    IF body = Malformed THEN NoImage
    ELSE LET t == Thumbnail(ImageSizes[body][1], ImageSizes[body][2])
         IN PilImage(t[1], t[2])

\* a pixmap: what it shows, its size, the marker centre and the text drawn
Frame(img, w, h, marker, label, label_pos) ==
    [img |-> img, w |-> w, h |-> h, marker |-> marker, label |-> label,
     label_pos |-> label_pos]

\* QLabel without a pixmap, and the null QPixmap()
NoPixmap == Frame("none", 0, 0, <<>>, "", <<>>)

\* QPixmap.fromImage(ImageQt(img))
PixmapOf(img) == Frame("world", img.w, img.h, <<>>, "", <<>>)

\* Image.new("RGB", (800, 400), (0, 0, 0))
BlankCanvas == Frame("blank", CanvasW, CanvasH, <<>>, "", <<>>)

NoDataLabel == "ISS konumu yok (bekleniyor)"
PositionLabel == "ISS Konumu | Lat, Lon"

\* latlon_to_xy rounding down instead of towards zero
latlon_to_xy_floor(lat, lon, w, h) ==
    <<((lon + 1800) * w) \div 3600, ((900 - lat) * h) \div 1800>>

\* IssTab.latlon_to_xy in exact arithmetic on tenths of a degree.  The code
\* computes in IEEE doubles; on the positions of this model (multiples of
\* 15 degrees, 10.5, 95.0, 200.5) both agree.
latlon_to_xy(lat, lon, w, h) ==
    <<TruncDiv((lon + 1800) * w, 3600), TruncDiv((900 - lat) * h, 1800)>>

\* the marker centre kept on the canvas, not a radius inside it
Clamp_to_canvas(v, size) == Max(0, Min(size, v))

\* x = max(r, min(w - r, x))
Clamp(v, size) == Max(MarkerR, Min(size - MarkerR, v))

\* the base image redraw starts from
Backdrop(pil) == IF pil.some THEN PixmapOf(pil) ELSE BlankCanvas

\* IssTab.redraw: the new pixmap of map_label and the new text of info
redraw(pil, pos) ==
    LET base == Backdrop(pil)
    IN IF pos # <<>>
       THEN LET xy == latlon_to_xy(pos[1], pos[2], base.w, base.h)
                x == Clamp(xy[1], base.w)
                y == Clamp(xy[2], base.h)
            IN [map_label |-> Frame(base.img, base.w, base.h, <<x, y>>,
                                    PositionLabel, pos),
                info |-> <<"Son konum", pos[1], pos[2]>>]
       ELSE [map_label |-> Frame(base.img, base.w, base.h, <<>>,
                                 NoDataLabel, <<>>),
             info |-> <<"Son konum: yok", 0, 0>>]

-----------------------------------------------------------------------------
(* IssTab: signals, worker threads and slots *)

\* a signal emission queued for the thread the IssTab widget lives in
\* (posReady, statusReady and worldReady are connected in __init__ and
\* emitted from worker threads)
Signal(sig, lat, lon, text, e, pix) ==
    [sig |-> sig, lat |-> lat, lon |-> lon, text |-> text, e |-> e, pix |-> pix]

posReady(lat, lon) == Signal("posReady", lat, lon, "", "", NoPixmap)
statusReady(text, e) == Signal("statusReady", 0, 0, text, e, NoPixmap)
worldReady(pix) == Signal("worldReady", 0, 0, "", "", pix)

StatusInitial == [text |-> "Durum: baslangic", e |-> ""]
StatusWorldLoaded == "Durum: Dunya gorseli yuklendi"
StatusWorldFailed == "Durum: Dunya gorseli yuklenemedi. Siyah arka plan."
StatusIssUpdated == "Durum: ISS konumu guncellendi"
StatusIssFailed == "Durum: ISS konumu alinamadi (gecici)"

\* the thread of load_world_image_async.worker at its first statement
NewWorldWorker ==
    [pc |-> "http", http |-> NewCall("bytes", WorldRetries), img |-> NoImage,
     e |-> ""]

\* the thread of fetch_iss_async.worker at its first statement
NewIssWorker == [pc |-> "http", http |-> NewCall("json", IssRetries)]

\* load_world_image_async: start one worker thread
load_world_image_async(threads) == Append(threads, NewWorldWorker)

\* the validation taking a missing or unreadable longitude for 0
ParsePosition_lenient(data) ==
    LET fail(e) == [ok |-> FALSE, lat |-> 0, lon |-> 0, e |-> e]
    IN IF data.t # "obj" THEN fail("AttributeError")
       ELSE LET pos == DictGet(data, "iss_position")
            IN IF ~Truthy(pos) THEN fail("ValueError: ISS konumu JSON icinde yok.")
               ELSE IF pos.t # "obj" THEN fail("AttributeError")
               ELSE LET lat_raw == DictGet(pos, "latitude")
                        lon_raw == DictGet(pos, "longitude")
                    IN IF lat_raw.t = "null"
                       THEN fail("ValueError: ISS konumu eksik.")
                       ELSE LET lat == PyFloat(lat_raw)
                                lon == PyFloat(lon_raw)
                            IN IF ~lat.ok
                               THEN fail("ValueError: could not convert")
                               ELSE [ok |-> TRUE, lat |-> lat.v,
                                     lon |-> IF lon.ok THEN lon.v ELSE 0,
                                     e |-> ""]

\* lines 244-254 of fetch_iss_async.worker: the position in the document,
\* or the exception raised on the way
ParsePosition(data) ==
    LET fail(e) == [ok |-> FALSE, lat |-> 0, lon |-> 0, e |-> e]
    IN IF data.t # "obj" THEN fail("AttributeError")
       ELSE LET pos == DictGet(data, "iss_position")
            IN IF ~Truthy(pos) THEN fail("ValueError: ISS konumu JSON icinde yok.")
               ELSE IF pos.t # "obj" THEN fail("AttributeError")
               ELSE LET lat_raw == DictGet(pos, "latitude")
                        lon_raw == DictGet(pos, "longitude")
                    IN IF lat_raw.t = "null" \/ lon_raw.t = "null"
                       THEN fail("ValueError: ISS konumu eksik.")
                       ELSE LET lat == PyFloat(lat_raw)
                                lon == PyFloat(lon_raw)
                            IN IF ~lat.ok \/ ~lon.ok
                               THEN fail("ValueError: could not convert")
                               ELSE [ok |-> TRUE, lat |-> lat.v, lon |-> lon.v,
                                     e |-> ""]

\* lines 244-254 applied to each document the position service may answer with
ParsedDocs == [d \in DOMAIN JsonDocs |-> ParsePosition(JsonDocs[d])]

\* no fetch was started yet
NoFetches ==
    [inflight |-> <<>>, queued |-> <<>>, applied |-> 0, completed |-> 0,
     reported |-> [network |-> "", validation |-> ""]]

TabInit ==
    /\ world_img_pil = NoImage
    /\ last_pos = <<>>
    /\ fetching = FALSE
    /\ status = StatusInitial
    /\ map_label = NoPixmap
    /\ info = <<"", 0, 0>>
    /\ queue = <<>>
    /\ world_workers = load_world_image_async(<<>>)
    /\ iss_workers = <<>>
    /\ ticks = 0
    /\ fetch_order = NoFetches

NoCall == [NewCall("none", 0) EXCEPT !.state = "idle"]

Init ==
    /\ TabInit
    /\ call = NoCall
    /\ transport = <<>>

Remove(seq, i) == SubSeq(seq, 1, i - 1) \o SubSeq(seq, i + 1, Len(seq))

\* a tick that also starts the backdrop load again while there is no backdrop
fetch_iss_async_reloads ==
    /\ ticks < MaxTicks
    /\ ticks' = ticks + 1
    /\ IF fetching
       THEN UNCHANGED <<fetching, iss_workers, fetch_order>>
       ELSE /\ fetching' = TRUE
            /\ iss_workers' = Append(iss_workers, NewIssWorker)
            /\ fetch_order' = [fetch_order EXCEPT
                   !.inflight = Append(@, ticks + 1)]
    /\ world_workers' = IF world_img_pil.some THEN world_workers
                        ELSE load_world_image_async(world_workers)
    /\ UNCHANGED <<world_img_pil, last_pos, status, map_label, info, queue>>
    /\ UNCHANGED fetchVars

\* fetch_iss_async with the `if self.fetching: return` guard left out
fetch_iss_async_unguarded ==
    /\ ticks < MaxTicks
    /\ ticks' = ticks + 1
    /\ fetching' = TRUE
    /\ iss_workers' = Append(iss_workers, NewIssWorker)
    /\ fetch_order' = [fetch_order EXCEPT !.inflight = Append(@, ticks + 1)]
    /\ UNCHANGED <<world_img_pil, last_pos, status, map_label, info, queue,
                   world_workers>>
    /\ UNCHANGED fetchVars

\* IssTab.fetch_iss_async, the slot of timer.timeout
fetch_iss_async ==
    /\ ticks < MaxTicks
    /\ ticks' = ticks + 1
    /\ IF fetching
       THEN UNCHANGED <<fetching, iss_workers, fetch_order>>
       ELSE /\ fetching' = TRUE
            /\ iss_workers' = Append(iss_workers, NewIssWorker)
            /\ fetch_order' = [fetch_order EXCEPT
                   !.inflight = Append(@, ticks + 1)]
    /\ UNCHANGED <<world_img_pil, last_pos, status, map_label, info, queue,
                   world_workers>>
    /\ UNCHANGED fetchVars

\* the worker clearing self.fetching as soon as the reply is in, not in finally
IssHttpAttempt_clears_flag(i) ==
    /\ iss_workers[i].pc = "http"
    /\ LoopRuns(iss_workers[i].http)
    /\ \E resp \in Responses(JsonBodies) :
         LET c == http_get_json(iss_workers[i].http, resp)
         IN iss_workers' = [iss_workers EXCEPT ![i] =
                [pc |-> IF c.state = "returned" THEN "parse" ELSE "http",
                 http |-> c]]
    /\ fetching' = FALSE
    /\ UNCHANGED <<world_img_pil, last_pos, status, map_label, info,
                   queue, world_workers, ticks>>
    /\ UNCHANGED fetch_order
    /\ UNCHANGED fetchVars

\* fetch_iss_async.worker, line 243: one attempt of http_get_json
IssHttpAttempt(i) ==
    /\ iss_workers[i].pc = "http"
    /\ LoopRuns(iss_workers[i].http)
    /\ \E resp \in Responses(JsonBodies) :
         LET c == http_get_json(iss_workers[i].http, resp)
         IN iss_workers' = [iss_workers EXCEPT ![i] =
                [pc |-> IF c.state = "returned" THEN "parse" ELSE "http",
                 http |-> c]]
    /\ UNCHANGED <<world_img_pil, last_pos, fetching, status, map_label, info,
                   queue, world_workers, ticks>>
    /\ UNCHANGED fetch_order
    /\ UNCHANGED fetchVars

\* fetch_iss_async.worker, line 243: http_get_json raises, caught at line 257
IssHttpRaise(i) ==
    /\ iss_workers[i].pc = "http"
    /\ LoopExhausted(iss_workers[i].http)
    /\ iss_workers' = [iss_workers EXCEPT ![i] =
           [pc |-> "except", http |-> http_raise(iss_workers[i].http)]]
    /\ UNCHANGED <<world_img_pil, last_pos, fetching, status, map_label, info,
                   queue, world_workers, ticks>>
    /\ UNCHANGED fetch_order
    /\ UNCHANGED fetchVars

\* IssParse with the signal delivered ahead of the signals already queued
IssParse_prepends(i) ==
    /\ iss_workers[i].pc = "parse"
    /\ LET p == ParsedDocs[iss_workers[i].http.value]
       IN IF p.ok
          THEN /\ queue' = <<posReady(p.lat, p.lon)>> \o queue
               /\ iss_workers' = [iss_workers EXCEPT ![i].pc = "updated"]
               /\ fetch_order' = [fetch_order EXCEPT
                      !.queued = <<fetch_order.inflight[i]>> \o @]
          ELSE /\ queue' = queue
               /\ iss_workers' = [iss_workers EXCEPT ![i].pc = "except"]
               /\ fetch_order' = fetch_order
    /\ UNCHANGED <<world_img_pil, last_pos, fetching, status, map_label, info,
                   world_workers, ticks>>
    /\ UNCHANGED fetchVars

\* fetch_iss_async.worker, lines 244-255: validate and emit posReady
IssParse(i) ==
    /\ iss_workers[i].pc = "parse"
    /\ LET p == ParsedDocs[iss_workers[i].http.value]
       IN IF p.ok
          THEN /\ queue' = Append(queue, posReady(p.lat, p.lon))
               /\ iss_workers' = [iss_workers EXCEPT ![i].pc = "updated"]
               /\ fetch_order' = [fetch_order EXCEPT
                      !.queued = Append(@, fetch_order.inflight[i])]
          ELSE /\ queue' = queue
               /\ iss_workers' = [iss_workers EXCEPT ![i].pc = "except"]
               /\ fetch_order' = fetch_order
    /\ UNCHANGED <<world_img_pil, last_pos, fetching, status, map_label, info,
                   world_workers, ticks>>
    /\ UNCHANGED fetchVars

\* fetch_iss_async.worker, line 256
IssEmitUpdated(i) ==
    /\ iss_workers[i].pc = "updated"
    /\ queue' = Append(queue, statusReady(StatusIssUpdated, ""))
    /\ iss_workers' = [iss_workers EXCEPT ![i].pc = "finally"]
    /\ UNCHANGED <<world_img_pil, last_pos, fetching, status, map_label, info,
                   world_workers, ticks>>
    /\ UNCHANGED fetch_order
    /\ UNCHANGED fetchVars

\* why fetch_iss_async.worker is in its except clause: http_get_json raised
\* (line 243) or the document failed the checks of lines 244-254
FailureCause(w) == IF w.http.state = "raised" THEN "network" ELSE "validation"

\* IssExcept with the thread ending in the handler, the finally clause skipped
IssExcept_skips_finally(i) ==
    /\ iss_workers[i].pc = "except"
    /\ queue' = Append(queue, statusReady(StatusIssFailed, ""))
    /\ iss_workers' = Remove(iss_workers, i)
    /\ fetch_order' = [fetch_order EXCEPT
           !.inflight = Remove(@, i),
           !.reported[FailureCause(iss_workers[i])] = StatusIssFailed]
    /\ UNCHANGED <<world_img_pil, last_pos, fetching, status, map_label, info,
                   world_workers, ticks>>
    /\ UNCHANGED fetchVars

\* fetch_iss_async.worker, lines 257-259
IssExcept(i) ==
    /\ iss_workers[i].pc = "except"
    /\ queue' = Append(queue, statusReady(StatusIssFailed, ""))
    /\ iss_workers' = [iss_workers EXCEPT ![i].pc = "finally"]
    /\ fetch_order' = [fetch_order EXCEPT
           !.reported[FailureCause(iss_workers[i])] = StatusIssFailed]
    /\ UNCHANGED <<world_img_pil, last_pos, fetching, status, map_label, info,
                   world_workers, ticks>>
    /\ UNCHANGED fetchVars

\* fetch_iss_async.worker, lines 260-261; the thread ends
IssFinally(i) ==
    /\ iss_workers[i].pc = "finally"
    /\ fetching' = FALSE
    /\ iss_workers' = Remove(iss_workers, i)
    /\ fetch_order' = [fetch_order EXCEPT
           !.inflight = Remove(@, i),
           !.completed = fetch_order.inflight[i]]
    /\ UNCHANGED <<world_img_pil, last_pos, status, map_label, info, queue,
                   world_workers, ticks>>
    /\ UNCHANGED fetchVars

\* load_world_image_async.worker, line 214: one attempt of http_get_bytes
WorldHttpAttempt(i) ==
    /\ world_workers[i].pc = "http"
    /\ LoopRuns(world_workers[i].http)
    /\ \E resp \in Responses(ImageBodies) :
         LET c == http_get_bytes(world_workers[i].http, resp)
         IN world_workers' = [world_workers EXCEPT
                ![i].pc = IF c.state = "returned" THEN "decode" ELSE "http",
                ![i].http = c]
    /\ UNCHANGED <<world_img_pil, last_pos, fetching, status, map_label, info,
                   queue, iss_workers, ticks>>
    /\ UNCHANGED fetch_order
    /\ UNCHANGED fetchVars

\* load_world_image_async.worker, line 214: http_get_bytes raises, caught at
\* line 221
WorldHttpRaise(i) ==
    /\ world_workers[i].pc = "http"
    /\ LoopExhausted(world_workers[i].http)
    /\ LET c == http_raise(world_workers[i].http)
       IN world_workers' = [world_workers EXCEPT
              ![i].pc = "except", ![i].http = c, ![i].e = c.error]
    /\ UNCHANGED <<world_img_pil, last_pos, fetching, status, map_label, info,
                   queue, iss_workers, ticks>>
    /\ UNCHANGED fetch_order
    /\ UNCHANGED fetchVars

\* load_world_image_async.worker, lines 215-217: decode, shrink and store the
\* image in self.world_img_pil
WorldDecode(i) ==
    /\ world_workers[i].pc = "decode"
    /\ LET img == DecodeImage(world_workers[i].http.value)
       IN IF img.some
          THEN /\ world_img_pil' = img
               /\ world_workers' = [world_workers EXCEPT
                      ![i].pc = "emit_world", ![i].img = img]
          ELSE /\ world_img_pil' = world_img_pil
               /\ world_workers' = [world_workers EXCEPT
                      ![i].pc = "except", ![i].e = "UnidentifiedImageError"]
    /\ UNCHANGED <<last_pos, fetching, status, map_label, info, queue,
                   iss_workers, ticks>>
    /\ UNCHANGED fetch_order
    /\ UNCHANGED fetchVars

\* load_world_image_async.worker, lines 218-219
WorldEmitPixmap(i) ==
    /\ world_workers[i].pc = "emit_world"
    /\ queue' = Append(queue, worldReady(PixmapOf(world_workers[i].img)))
    /\ world_workers' = [world_workers EXCEPT ![i].pc = "emit_status"]
    /\ UNCHANGED <<world_img_pil, last_pos, fetching, status, map_label, info,
                   iss_workers, ticks>>
    /\ UNCHANGED fetch_order
    /\ UNCHANGED fetchVars

\* load_world_image_async.worker, line 220; the thread ends
WorldEmitLoaded(i) ==
    /\ world_workers[i].pc = "emit_status"
    /\ queue' = Append(queue, statusReady(StatusWorldLoaded, ""))
    /\ world_workers' = [world_workers EXCEPT ![i].pc = "done"]
    /\ UNCHANGED <<world_img_pil, last_pos, fetching, status, map_label, info,
                   iss_workers, ticks>>
    /\ UNCHANGED fetch_order
    /\ UNCHANGED fetchVars

\* load_world_image_async.worker, lines 221-223
WorldExcept(i) ==
    /\ world_workers[i].pc = "except"
    /\ world_img_pil' = NoImage
    /\ world_workers' = [world_workers EXCEPT ![i].pc = "except_world"]
    /\ UNCHANGED <<last_pos, fetching, status, map_label, info, queue,
                   iss_workers, ticks>>
    /\ UNCHANGED fetch_order
    /\ UNCHANGED fetchVars

\* load_world_image_async.worker, line 224
WorldEmitNull(i) ==
    /\ world_workers[i].pc = "except_world"
    /\ queue' = Append(queue, worldReady(NoPixmap))
    /\ world_workers' = [world_workers EXCEPT ![i].pc = "except_status"]
    /\ UNCHANGED <<world_img_pil, last_pos, fetching, status, map_label, info,
                   iss_workers, ticks>>
    /\ UNCHANGED fetch_order
    /\ UNCHANGED fetchVars

\* load_world_image_async.worker, line 225; the thread ends
WorldEmitFailed(i) ==
    /\ world_workers[i].pc = "except_status"
    /\ queue' = Append(queue, statusReady(StatusWorldFailed, world_workers[i].e))
    /\ world_workers' = [world_workers EXCEPT ![i].pc = "done"]
    /\ UNCHANGED <<world_img_pil, last_pos, fetching, status, map_label, info,
                   iss_workers, ticks>>
    /\ UNCHANGED fetch_order
    /\ UNCHANGED fetchVars

\* IssTab._on_position, run by the GUI thread for a queued posReady
on_position ==
    /\ queue # <<>>
    /\ Head(queue).sig = "posReady"
    /\ LET pos == <<Head(queue).lat, Head(queue).lon>>
           drawn == redraw(world_img_pil, pos)
       IN /\ last_pos' = pos
          /\ map_label' = drawn.map_label
          /\ info' = drawn.info
    /\ queue' = Tail(queue)
    /\ fetch_order' = [fetch_order EXCEPT
           !.queued = Tail(@),
           !.applied = Head(fetch_order.queued)]
    /\ UNCHANGED <<world_img_pil, fetching, status, world_workers, iss_workers,
                   ticks>>
    /\ UNCHANGED fetchVars

\* IssTab._on_status, run by the GUI thread for a queued statusReady
on_status ==
    /\ queue # <<>>
    /\ Head(queue).sig = "statusReady"
    /\ status' = [text |-> Head(queue).text, e |-> Head(queue).e]
    /\ queue' = Tail(queue)
    /\ UNCHANGED <<world_img_pil, last_pos, fetching, map_label, info,
                   world_workers, iss_workers, ticks>>
    /\ UNCHANGED fetch_order
    /\ UNCHANGED fetchVars

\* IssTab._on_world_pixmap, run by the GUI thread for a queued worldReady
on_world_pixmap ==
    /\ queue # <<>>
    /\ Head(queue).sig = "worldReady"
    /\ map_label' = IF Head(queue).pix.img # "none"
                    THEN Head(queue).pix
                    ELSE BlankCanvas
    /\ queue' = Tail(queue)
    /\ UNCHANGED <<world_img_pil, last_pos, fetching, status, info,
                   world_workers, iss_workers, ticks>>
    /\ UNCHANGED fetch_order
    /\ UNCHANGED fetchVars

Next ==
    \/ fetch_iss_async
    \/ \E i \in DOMAIN iss_workers : IssHttpAttempt(i)
    \/ \E i \in DOMAIN iss_workers : IssHttpRaise(i)
    \/ \E i \in DOMAIN iss_workers : IssParse(i)
    \/ \E i \in DOMAIN iss_workers : IssEmitUpdated(i)
    \/ \E i \in DOMAIN iss_workers : IssExcept(i)
    \/ \E i \in DOMAIN iss_workers : IssFinally(i)
    \/ \E i \in DOMAIN world_workers : WorldHttpAttempt(i)
    \/ \E i \in DOMAIN world_workers : WorldHttpRaise(i)
    \/ \E i \in DOMAIN world_workers : WorldDecode(i)
    \/ \E i \in DOMAIN world_workers : WorldEmitPixmap(i)
    \/ \E i \in DOMAIN world_workers : WorldEmitLoaded(i)
    \/ \E i \in DOMAIN world_workers : WorldExcept(i)
    \/ \E i \in DOMAIN world_workers : WorldEmitNull(i)
    \/ \E i \in DOMAIN world_workers : WorldEmitFailed(i)
    \/ on_position
    \/ on_status
    \/ on_world_pixmap

Spec == Init /\ [][Next]_vars

\* one statement of a thread of fetch_iss_async.worker
IssWorkerStep ==
    \E i \in DOMAIN iss_workers :
        \/ IssHttpAttempt(i)
        \/ IssHttpRaise(i)
        \/ IssParse(i)
        \/ IssEmitUpdated(i)
        \/ IssExcept(i)
        \/ IssFinally(i)

\* Spec with a started worker thread always scheduled again: every HTTP.get has
\* a timeout and every sleep of the retry loop is finite
SpecLive == Init /\ [][Next]_vars /\ WF_vars(IssWorkerStep)

-----------------------------------------------------------------------------
(* SpecFetch: one call of http_get_json or http_get_bytes, the transport     *)
(* recording every response it gives                                       *)

FetchInit ==
    /\ TabInit
    /\ call \in {NewCall(fn, n) : fn \in {"json", "bytes"}, n \in 0..MaxRetries}
    /\ transport = <<>>

\* http_get_json: HTTP.get is invoked and the loop body runs once
FetchJsonAttempt ==
    /\ call.fn = "json"
    /\ LoopRuns(call)
    /\ \E resp \in Responses(JsonBodies) :
         /\ transport' = Append(transport, resp)
         /\ call' = http_get_json(call, resp)
    /\ UNCHANGED tabVars

\* http_get_bytes: HTTP.get is invoked and the loop body runs once
FetchBytesAttempt ==
    /\ call.fn = "bytes"
    /\ LoopRuns(call)
    /\ \E resp \in Responses(ImageBodies) :
         /\ transport' = Append(transport, resp)
         /\ call' = http_get_bytes(call, resp)
    /\ UNCHANGED tabVars

\* the raise after the loop of either helper
FetchRaise ==
    /\ LoopExhausted(call)
    /\ call' = http_raise(call)
    /\ UNCHANGED <<transport>>
    /\ UNCHANGED tabVars

FetchNext ==
    \/ FetchJsonAttempt
    \/ FetchBytesAttempt
    \/ FetchRaise

SpecFetch == FetchInit /\ [][FetchNext]_vars

-----------------------------------------------------------------------------
(* SpecCompose: redraw applied to one backdrop and one position            *)

\* the sizes of the images the backdrop is decoded from
ComposeSizes == {<<5400, 2700>>, <<1000, 1000>>, <<30, 12>>, <<16, 16>>}

ComposeImages ==
    {NoImage} \cup {PilImage(Thumbnail(s[1], s[2])[1], Thumbnail(s[1], s[2])[2]) :
                      s \in ComposeSizes}

ComposePositions ==
    {<<>>} \cup {<<150 * a, 300 * b>> : a \in (0 - GridCells)..GridCells,
                                       b \in (0 - GridCells)..GridCells}

ComposeInit ==
    /\ world_img_pil \in ComposeImages
    /\ last_pos \in ComposePositions
    /\ fetching = FALSE
    /\ status = StatusInitial
    /\ map_label = NoPixmap
    /\ info = <<"", 0, 0>>
    /\ queue = <<>>
    /\ world_workers = <<>>
    /\ iss_workers = <<>>
    /\ ticks = 0
    /\ fetch_order = NoFetches
    /\ call = NoCall
    /\ transport = <<>>

\* IssTab.redraw on the fields as they are
Compose ==
    /\ map_label = NoPixmap
    /\ LET drawn == redraw(world_img_pil, last_pos)
       IN /\ map_label' = drawn.map_label
          /\ info' = drawn.info
    /\ UNCHANGED <<world_img_pil, last_pos, fetching, status, queue,
                   world_workers, iss_workers, ticks>>
    /\ UNCHANGED fetch_order
    /\ UNCHANGED fetchVars

ComposeNext == Compose

SpecCompose == ComposeInit /\ [][ComposeNext]_vars

-----------------------------------------------------------------------------
(* Properties of IssTab, checked under Spec *)

\* the world worker has emitted nothing yet
WorldSilent ==
    \A i \in DOMAIN world_workers :
        world_workers[i].pc \in {"http", "decode", "emit_world", "except",
                                 "except_world"}

\* C1: single-flight.  Under any interleaving of timer ticks and worker
\* steps, at most one position-fetch worker is in flight (started and not yet
\* past `finally: self.fetching = False`), and while one is in flight the
\* fetching flag is set.
C1_SingleFlight ==
    /\ Len(iss_workers) <= 1
    /\ Len(iss_workers) = 1 => fetching

\* A second tick has arrived and the only fetch ever started is about to
\* clear the flag: its status signal is the only signal emitted so far.
C1_Witness ==
    /\ ticks = 2
    /\ Len(iss_workers) = 1
    /\ iss_workers[1].pc = "finally"
    /\ Len(queue) = 1
    /\ Head(queue).sig = "statusReady"
    /\ status = StatusInitial
    /\ WorldSilent

\* C2: a timer tick that arrives while fetching is true is dropped: it
\* changes nothing but the count of ticks; and a worker thread is started
\* only by a step that is a tick arriving while fetching is false, one thread
\* per such tick, so a dropped tick is never replayed later.
C2_TickDropped ==
    [][ /\ (ticks' = ticks + 1 /\ fetching) =>
              UNCHANGED <<world_img_pil, last_pos, fetching, status, map_label,
                          info, queue, world_workers, iss_workers>>
        /\ Len(iss_workers') > Len(iss_workers) =>
              /\ ticks' = ticks + 1
              /\ ~fetching
              /\ Len(iss_workers') = Len(iss_workers) + 1 ]_vars

\* Two ticks arrived, the second was dropped: one worker is in flight, it has
\* not got past its HTTP call, and no signal was ever emitted.
C2_Witness ==
    /\ ticks = 2
    /\ Len(iss_workers) = 1
    /\ iss_workers[1].pc = "http"
    /\ queue = <<>>
    /\ status = StatusInitial
    /\ last_pos = <<>>
    /\ WorldSilent

HasNumber(obj, key) == key \in DOMAIN obj.v /\ PyFloat(obj.v[key]).ok

\* a document with a position sub-object whose latitude and longitude are
\* both present and numeric
ValidPositionDoc(doc) ==
    /\ doc.t = "obj"
    /\ "iss_position" \in DOMAIN doc.v
    /\ doc.v["iss_position"].t = "obj"
    /\ HasNumber(doc.v["iss_position"], "latitude")
    /\ HasNumber(doc.v["iss_position"], "longitude")

\* the fetch of this worker is a network failure or a validation failure
FetchFailed(w) ==
    \/ w.http.state = "raised"
    \/ w.http.state = "returned" /\ ~ValidPositionDoc(JsonDocs[w.http.value])

\* the GUI thread takes the signal at the head of the queue
Delivers(sigs) ==
    queue # <<>> /\ Head(queue).sig \in sigs /\ queue' = Tail(queue)

\* C4: a position fetch that ends in a network failure or a validation
\* failure (no position sub-object, latitude or longitude missing or not
\* numeric) changes neither last_pos nor anything shown but the status text:
\* every step of its worker leaves last_pos, the backdrop, the frame and the
\* info text as they are, emits nothing but the failure status, and touches
\* fetching only to clear it; and applying a status signal changes the status
\* text alone.
C4_FailureKeepsPosition ==
    [][ /\ \A i \in DOMAIN iss_workers :
              (FetchFailed(iss_workers[i]) /\ iss_workers' # iss_workers) =>
                 /\ UNCHANGED <<world_img_pil, last_pos, status, map_label, info>>
                 /\ queue' \in {queue,
                                Append(queue, statusReady(StatusIssFailed, ""))}
                 /\ fetching' \in {fetching, FALSE}
        /\ Delivers({"statusReady"}) =>
              UNCHANGED <<world_img_pil, last_pos, fetching, map_label, info>>
      ]_vars

\* A position was obtained, the next fetch failed and has completed, and its
\* failure status is on display beside the earlier position.
C4_Witness ==
    /\ ticks = 2
    /\ last_pos # <<>>
    /\ status.text = StatusIssFailed
    /\ iss_workers = <<>>
    /\ ~fetching
    /\ queue = <<>>
    /\ map_label.marker # <<>>

\* C5: last_pos is absent or a position with latitude in [-90, 90] and
\* longitude in [-180, 180]; an out-of-range payload never reaches it.
C5_PositionInRange ==
    \/ last_pos = <<>>
    \/ /\ last_pos[1] >= 0 - 900 /\ last_pos[1] <= 900
       /\ last_pos[2] >= 0 - 1800 /\ last_pos[2] <= 1800

\* C6: the cached backdrop, last_pos, the status text and the frame and text
\* on display are written only by the GUI thread applying a queued signal,
\* never by a step of a worker thread.
C6_OnlyConsumerWrites ==
    [][ (\/ world_img_pil' # world_img_pil
         \/ last_pos' # last_pos
         \/ status' # status
         \/ map_label' # map_label
         \/ info' # info)
        => Delivers({"posReady", "statusReady", "worldReady"}) ]_vars

\* the first (and only) thread of load_world_image_async ended in its except
\* branch, past line 223
WorldLoadFailed ==
    /\ world_workers # <<>>
    /\ world_workers[1].pc \in {"except_world", "except_status", "done"}
    /\ world_workers[1].e # ""

\* C7: the backdrop load is started once, at construction, and never again;
\* once its thread has ended nothing changes the cached backdrop; and when
\* the load failed the backdrop is the blank 800x400 canvas, which is what
\* every frame put on display is drawn on.
C7_BackdropLoadedOnce ==
    /\ [](Len(world_workers) = 1)
    /\ [](WorldLoadFailed =>
            /\ Backdrop(world_img_pil) = BlankCanvas
            /\ map_label.img # "none" =>
                  /\ map_label.img = "blank"
                  /\ map_label.w = CanvasW
                  /\ map_label.h = CanvasH)
    /\ [][ world_workers[1].pc = "done" =>
             /\ world_workers' = world_workers
             /\ world_img_pil' = world_img_pil ]_vars

\* The load failed and its signals were applied; two ticks later a position
\* is drawn on the blank canvas.
C7_Witness ==
    /\ WorldLoadFailed
    /\ world_workers[1].pc = "done"
    /\ status.text = StatusIssUpdated
    /\ ticks = 2
    /\ last_pos # <<>>
    /\ map_label.img = "blank"
    /\ map_label.marker # <<>>
    /\ queue = <<>>

\* the frame shows this backdrop with the marker of this position
FrameShows(frame, pil, pos) ==
    /\ frame.img = Backdrop(pil).img
    /\ frame.w = Backdrop(pil).w
    /\ frame.h = Backdrop(pil).h
    /\ frame.marker = redraw(pil, pos).map_label.marker

\* C8: whenever a backdrop-ready or a position-updated signal has been
\* applied, the frame on display is the composite of the latest backdrop and
\* the latest last_pos: its marker is the marker of last_pos.
C8_FrameIsLatestComposite ==
    [][ Delivers({"worldReady", "posReady"}) =>
          FrameShows(map_label', world_img_pil', last_pos') ]_vars

\* C10: while last_pos is absent, and a result has been applied (a status is
\* on display, such as that of a failed position fetch), the frame on display
\* is the placeholder: the backdrop with the "no data yet" label, no marker.
C10_PlaceholderShown ==
    (last_pos = <<>> /\ status # StatusInitial) =>
        /\ map_label.img # "none"
        /\ map_label.label = NoDataLabel
        /\ map_label.marker = <<>>

\* The fetches whose posReady is still queued, oldest first
QueuedFetches == fetch_order.queued

\* C11: positions are applied to last_pos in the order in which their fetches
\* completed.  Fetches are numbered by the tick that started them; they
\* complete in that order, their posReady signals wait in that order behind
\* the one last applied, and the fetch whose position last_pos holds never
\* goes back to an older one, although fetching is cleared by the worker
\* while its posReady may still be queued.
C11_AppliedInCompletionOrder ==
    [][ /\ fetch_order'.completed >= fetch_order.completed
        /\ fetch_order'.applied >= fetch_order.applied
        /\ \A k \in DOMAIN QueuedFetches :
               /\ QueuedFetches[k] > fetch_order.applied
               /\ k > 1 => QueuedFetches[k - 1] < QueuedFetches[k]
        /\ Len(QueuedFetches)
              = Cardinality({k \in DOMAIN queue : queue[k].sig = "posReady"})
      ]_vars

\* The first fetch's position was applied while the second fetch, already
\* completed with fetching cleared, still has its position queued
C11_Witness ==
    /\ fetch_order.applied = 1
    /\ fetch_order.completed = 2
    /\ QueuedFetches = <<2>>
    /\ ~fetching
    /\ last_pos # <<>>

\* the fetches whose worker thread has not ended
InFlight == {fetch_order.inflight[k] : k \in DOMAIN fetch_order.inflight}

\* C12: the poller never stays in fetching.  With the worker thread scheduled
\* fairly, every fetch that was started ends, after at most IssRetries attempts
\* of the request, and leaves fetching false, whether it succeeded or failed;
\* and a timer tick that finds fetching false starts a new worker however the
\* earlier fetches ended.
C12_FetchCompletes ==
    /\ \A n \in 1..MaxTicks :
           (n \in InFlight) ~> (fetch_order.completed = n /\ ~fetching)
    /\ fetching ~> ~fetching
    /\ [](\A k \in DOMAIN iss_workers : iss_workers[k].http.i <= IssRetries)
    /\ [][(ticks' = ticks + 1 /\ ~fetching)
            => /\ fetching'
               /\ iss_workers' = Append(iss_workers, NewIssWorker)
               /\ fetch_order'.inflight = <<ticks'>>]_vars

\* The first fetch failed (its failure status is shown, no position was ever
\* stored) and completed, and the next tick has started the second fetch
C12_Witness ==
    /\ fetch_order.completed = 1
    /\ status.text = StatusIssFailed
    /\ last_pos = <<>>
    /\ fetch_order.queued = <<>>
    /\ InFlight = {2}
    /\ fetching

\* C13: a fetched document that fails validation (no iss_position, or a
\* latitude or longitude that is missing or not a number) is reported with an
\* outcome distinct from the one of a network failure: once a failure of each
\* kind was reported, the two status texts differ.
C13_FailuresDistinguished ==
    (/\ fetch_order.reported.network # ""
     /\ fetch_order.reported.validation # "")
        => fetch_order.reported.network # fetch_order.reported.validation

-----------------------------------------------------------------------------
(* Properties of the HTTP helpers, checked under SpecFetch *)

\* an attempt fails when HTTP.get raises, the status is not 2xx, or (for
\* http_get_json) the body is not JSON
AttemptFailed(fn, resp) ==
    resp.kind # "ok" \/ (fn = "json" /\ resp.body = Malformed)

AttemptCause(fn, resp) ==
    IF resp.kind # "ok" THEN resp.cause ELSE "JSONDecodeError"

\* C3: for every retries N >= 1, a call whose every attempt fails invokes
\* the transport exactly N times and then raises with the cause of the last
\* attempt; a call returns a value only from a successful attempt k <= N,
\* after exactly k invocations, all earlier ones having failed; while the
\* call runs the transport has been invoked at most N times.
C3_BoundedRetries ==
    LET n == Len(transport)
    IN /\ n <= call.retries
       /\ (call.state = "raised" /\ call.retries >= 1) =>
             /\ n = call.retries
             /\ \A k \in 1..n : AttemptFailed(call.fn, transport[k])
             /\ call.error = AttemptCause(call.fn, transport[n])
       /\ call.state = "returned" =>
             /\ n >= 1
             /\ ~AttemptFailed(call.fn, transport[n])
             /\ \A k \in 1..(n - 1) : AttemptFailed(call.fn, transport[k])
             /\ call.value = transport[n].body
       /\ call.state = "running" =>
             \A k \in 1..n : AttemptFailed(call.fn, transport[k])

\* http_get_json with the largest retries has raised after three failures of
\* which the first and the last have different causes
C3_Witness ==
    /\ call.fn = "json"
    /\ call.state = "raised"
    /\ call.retries = MaxRetries
    /\ Len(transport) = MaxRetries
    /\ transport[1].kind = "exc"
    /\ transport[MaxRetries].kind = "ok"
    /\ call.error = "JSONDecodeError"

-----------------------------------------------------------------------------
(* Properties of redraw, checked under SpecCompose *)

\* C9: for every latitude in [-90, 90] and longitude in [-180, 180] and every
\* backdrop at least 2r wide and 2r high, the marker centre drawn by redraw
\* satisfies r <= x <= w - r and r <= y <= h - r.
C9_MarkerInside ==
    (/\ map_label.marker # <<>>
     /\ last_pos[1] >= 0 - 900 /\ last_pos[1] <= 900
     /\ last_pos[2] >= 0 - 1800 /\ last_pos[2] <= 1800
     /\ map_label.w >= 2 * MarkerR
     /\ map_label.h >= 2 * MarkerR)
    => /\ MarkerR <= map_label.marker[1]
       /\ map_label.marker[1] <= map_label.w - MarkerR
       /\ MarkerR <= map_label.marker[2]
       /\ map_label.marker[2] <= map_label.h - MarkerR

\* The south pole on the antimeridian drawn on the 800x400 backdrop: the
\* projection (800, 400) is clamped to (790, 390).
C9_Witness ==
    /\ last_pos = <<0 - 900, 1800>>
    /\ map_label.w = CanvasW
    /\ map_label.h = CanvasH
    /\ map_label.marker = <<CanvasW - MarkerR, CanvasH - MarkerR>>

\* x is num / den truncated to an integer (towards zero), den > 0
IsTrunc(x, num, den) ==
    IF num >= 0
    THEN x * den <= num /\ num < (x + 1) * den
    ELSE (x - 1) * den < num /\ num <= x * den

\* C14: for the latitude, longitude and backdrop size (w, h) redraw was given,
\* latlon_to_xy returns x = (longitude + 180) * (w / 360) and
\* y = (90 - latitude) * (h / 180) truncated to integers, and this is the point
\* redraw clamps and draws; latitude 0, longitude 0 on the 800x400 backdrop
\* projects to (400, 200).
C14_Projection ==
    /\ latlon_to_xy(0, 0, CanvasW, CanvasH) = <<400, 200>>
    /\ (map_label # NoPixmap /\ last_pos # <<>>)
         => LET w == map_label.w
                h == map_label.h
                xy == latlon_to_xy(last_pos[1], last_pos[2], w, h)
            IN /\ IsTrunc(xy[1], (last_pos[2] + 1800) * w, 3600)
               /\ IsTrunc(xy[2], (900 - last_pos[1]) * h, 1800)
               /\ map_label.marker = <<Clamp(xy[1], w), Clamp(xy[2], h)>>

\* Latitude 0, longitude 0 drawn on the 800x400 backdrop at (400, 200)
C14_Witness ==
    /\ last_pos = <<0, 0>>
    /\ map_label.w = CanvasW
    /\ map_label.h = CanvasH
    /\ map_label.marker = <<400, 200>>

====
